---- MODULE Spec2Model ----
(***************************************************************************)
(* A model of AutoFlasher: the J-Link command script builder               *)
(* (FlasherService.build_script), the output classifier                    *)
(* (FlasherService.analyze_output) and the flash orchestrator              *)
(* (AutoFlasherViewModel._flash_worker).                                   *)
(*                                                                         *)
(* Text is modelled as a sequence of lexical fragments ("tokens").  The    *)
(* tokens are chosen so that every literal the classifier looks for is a   *)
(* whole number of tokens: no pattern can match across part of a token.    *)
(***************************************************************************)
EXTENDS Integers, Sequences, FiniteSets, TLC

\* ------------------------------------------------------------------------
\* Bounds of the model
\* ------------------------------------------------------------------------

\* number of fragments concatenated into one J-Link output text
MaxFrags == 3

\* ------------------------------------------------------------------------
\* Text helpers (str.lower, str.strip, \s, \b)
\* ------------------------------------------------------------------------

\* str.lower() on one token: upper/mixed-case tokens map to their lower-case
\* spelling, everything else is already lower-case.
LowerTok(tok) ==
    CASE tok = "Error" -> "error"
      [] tok = "ERROR" -> "error"
      [] tok = "LoadFile" -> "loadfile"
      [] tok = "O.K." -> "o.k."
      [] tok = "Program" -> "program"
      [] tok = "Verify" -> "verify"
      [] tok = "Unspecified" -> "unspecified"
      [] tok = "J-Link" -> "j-link"
      [] tok = "Target voltage too low" -> "target voltage too low"
      [] tok = "Could not connect to the target device" -> "could not connect to the target device"
      [] tok = "Failed to prepare for programming" -> "failed to prepare for programming"
      [] tok = "Failed to download RAMCode" -> "failed to download ramcode"
      [] tok = "Verification of RAMCode failed" -> "verification of ramcode failed"
      [] tok = "Cannot connect" -> "cannot connect"
      [] tok = "Connection failed" -> "connection failed"
      [] tok = "Cannot identify target" -> "cannot identify target"
      [] OTHER -> tok

\* str.lower() on a text
Lower(t) == [i \in 1..Len(t) |-> LowerTok(t[i])]

\* \s : the whitespace tokens
IsSpace(tok) == tok \in {" ", "\n"}

\* tokens whose first character is not a word character ([A-Za-z0-9_])
IsNonWordStart(tok) == tok \in {" ", "\n", ":", "&", "!"}

RECURSIVE LStrip(_)
LStrip(t) == IF t # <<>> /\ IsSpace(Head(t)) THEN LStrip(Tail(t)) ELSE t

RECURSIVE RStrip(_)
RStrip(t) ==
    IF t # <<>> /\ IsSpace(t[Len(t)]) THEN RStrip(SubSeq(t, 1, Len(t) - 1)) ELSE t

\* str.strip()
Strip(t) == RStrip(LStrip(t))

\* t[i..] starts with the literal lit (lit is lower-case; re.IGNORECASE)
HasLitAt(lit, t, i) ==
    /\ i >= 1
    /\ i + Len(lit) - 1 <= Len(t)
    /\ \A k \in 1..Len(lit) : LowerTok(t[i + k - 1]) = lit[k]

\* index of the last token of the line that token i is on ('.' does not
\* match a newline)
RECURSIVE EndOfLine(_, _)
EndOfLine(t, i) ==
    IF i >= Len(t) THEN Len(t)
    ELSE IF t[i + 1] = "\n" THEN i
    ELSE EndOfLine(t, i + 1)

\* ------------------------------------------------------------------------
\* FlasherService.analyze_output
\* ------------------------------------------------------------------------

\* the fatal-error patterns, in the order of the list in analyze_output
\*   lit   : a literal
\*   toeol : a literal followed by '.*'
\*   wordb : a literal followed by '\b'
\*   span  : literal '.*' literal
error_patterns == <<
    [kind |-> "lit",   lit |-> <<"target voltage too low">>, tail |-> <<>>],
    [kind |-> "lit",   lit |-> <<"could not connect to the target device">>, tail |-> <<>>],
    [kind |-> "toeol", lit |-> <<"error", " ", "occurred:">>, tail |-> <<>>],
    [kind |-> "wordb", lit |-> <<"unspecified", " ", "error">>, tail |-> <<>>],
    [kind |-> "lit",   lit |-> <<"failed to prepare for programming">>, tail |-> <<>>],
    [kind |-> "lit",   lit |-> <<"failed to download ramcode">>, tail |-> <<>>],
    [kind |-> "lit",   lit |-> <<"verification of ramcode failed">>, tail |-> <<>>],
    [kind |-> "lit",   lit |-> <<"cannot connect">>, tail |-> <<>>],
    [kind |-> "lit",   lit |-> <<"connection failed">>, tail |-> <<>>],
    [kind |-> "lit",   lit |-> <<"cannot identify target">>, tail |-> <<>>],
    [kind |-> "span",  lit |-> <<"j-link">>, tail |-> <<"error">>],
    [kind |-> "lit",   lit |-> <<"error", ":">>, tail |-> <<>>] >>

\* re.match of one pattern at position i of t: the index of the last token of
\* the match, or 0 when the pattern does not match at i
MatchAt(pat, t, i) ==
    IF ~HasLitAt(pat.lit, t, i) THEN 0
    ELSE LET e == i + Len(pat.lit) - 1 IN
         CASE pat.kind = "lit" -> e
           [] pat.kind = "toeol" -> EndOfLine(t, e)
           [] pat.kind = "wordb" ->
                IF e = Len(t) \/ IsNonWordStart(t[e + 1]) THEN e ELSE 0
           [] pat.kind = "span" ->
                \* greedy '.*': the last occurrence of the tail on the line
                LET eol == EndOfLine(t, e)
                    ends == {j \in (e + 1)..eol :
                               /\ j - Len(pat.tail) + 1 > e
                               /\ HasLitAt(pat.tail, t, j - Len(pat.tail) + 1)}
                IN IF ends = {} THEN 0
                   ELSE CHOOSE j \in ends : \A k \in ends : k <= j

\* re.finditer(pat, t, re.IGNORECASE) from position i: the match objects
\* <<start, end>>, leftmost first, non-overlapping
RECURSIVE FindIter(_, _, _)
FindIter(pat, t, i) ==
    IF i > Len(t) THEN <<>>
    ELSE LET e == MatchAt(pat, t, i) IN
         IF e = 0 THEN FindIter(pat, t, i + 1)
         ELSE <<(<<i, e>>)>> \o FindIter(pat, t, e + 1)

\* m.group(0) of every match object of ms, in order
Group0(t, ms) == [k \in 1..Len(ms) |-> SubSeq(t, ms[k][1], ms[k][2])]

\* a collector that stops at the first pattern that matched
RECURSIVE CollectErrors_first_pattern(_, _)
CollectErrors_first_pattern(t, p) ==
    IF p > Len(error_patterns) THEN <<>>
    ELSE LET found == Group0(t, FindIter(error_patterns[p], t, 1)) IN
         IF found # <<>> THEN found ELSE CollectErrors_first_pattern(t, p + 1)

\* the two nested loops of analyze_output: for pat in error_patterns:
\* for m in re.finditer(pat, t): errors.append(m.group(0))
RECURSIVE CollectErrors(_, _)
CollectErrors(t, p) ==
    IF p > Len(error_patterns) THEN <<>>
    ELSE Group0(t, FindIter(error_patterns[p], t, 1)) \o CollectErrors(t, p + 1)

\* "loadfile" in t.lower()
HasLoadfile(t) == \E i \in 1..Len(t) : Lower(t)[i] = "loadfile"

\* re.search(r"O\.K\.", t, re.IGNORECASE)
HasOK(t) == \E i \in 1..Len(t) : LowerTok(t[i]) = "o.k."

\* index after skipping \s* from i
RECURSIVE SkipSpace(_, _)
SkipSpace(t, i) ==
    IF i <= Len(t) /\ IsSpace(t[i]) THEN SkipSpace(t, i + 1) ELSE i

\* re.search(r"Program\s*&\s*Verify", t, re.IGNORECASE)
HasProgramVerify(t) ==
    \E i \in 1..Len(t) :
        /\ LowerTok(t[i]) = "program"
        /\ LET a == SkipSpace(t, i + 1) IN
           /\ a <= Len(t)
           /\ t[a] = "&"
           /\ LET v == SkipSpace(t, a + 1) IN
              /\ v <= Len(t)
              /\ LowerTok(t[v]) = "verify"

\* re.search(r"Program speed", t, re.IGNORECASE)
HasProgramSpeed(t) ==
    \E i \in 1..Len(t) : HasLitAt(<<"program", " ", "speed">>, t, i)

\* FlashOutcome(success, errors, warnings, raw_output)
FlashOutcome(success, errors, warnings, raw_output) ==
    [success |-> success, errors |-> errors,
     warnings |-> warnings, raw_output |-> raw_output]

\* the message strings of analyze_output, as one-token texts
MsgNoOutput == <<"No output from J-Link.">>
MsgNoLoadfile == <<"No 'loadfile' found in output.">>
MsgNoMarker == <<"No success marker ('O.K.') found in output.">>

\* Python's None as an argument of analyze_output: a reserved value that is
\* no text (its one token occurs in no fragment of the texts drawn)
None == <<"<None>">>

\* "not text": true of None and of the empty string
IsFalsy(text) == text = None \/ text = <<>>

\* a classifier without the 'loadfile' rule
analyze_output_no_loadfile_rule(text) ==
    IF IsFalsy(text) THEN FlashOutcome(FALSE, <<MsgNoOutput>>, <<>>, <<>>)
    ELSE LET t == Strip(text)
             errors == CollectErrors(t, 1)
         IN
         IF errors # <<>> THEN FlashOutcome(FALSE, errors, <<>>, text)
         ELSE IF HasOK(t) THEN FlashOutcome(TRUE, <<>>, <<>>, text)
         ELSE IF HasProgramVerify(t) \/ HasProgramSpeed(t)
              THEN FlashOutcome(TRUE, <<>>, <<>>, text)
         ELSE FlashOutcome(FALSE, <<MsgNoMarker>>, <<>>, text)

\* a classifier that looks for the success markers before the error patterns
analyze_output_markers_first(text) ==
    IF IsFalsy(text) THEN FlashOutcome(FALSE, <<MsgNoOutput>>, <<>>, <<>>)
    ELSE LET t == Strip(text)
             errors == CollectErrors(t, 1)
         IN
         IF HasLoadfile(t) /\ (HasOK(t) \/ HasProgramVerify(t) \/ HasProgramSpeed(t))
         THEN FlashOutcome(TRUE, <<>>, <<>>, text)
         ELSE IF errors # <<>> THEN FlashOutcome(FALSE, errors, <<>>, text)
         ELSE IF ~HasLoadfile(t) THEN FlashOutcome(FALSE, <<MsgNoLoadfile>>, <<>>, text)
         ELSE FlashOutcome(FALSE, <<MsgNoMarker>>, <<>>, text)

\* a classifier without the "not text" rule
analyze_output_no_empty_rule(text) ==
    LET t == Strip(text)
        errors == CollectErrors(t, 1)
    IN
    IF errors # <<>> THEN FlashOutcome(FALSE, errors, <<>>, text)
    ELSE IF ~HasLoadfile(t) THEN FlashOutcome(FALSE, <<MsgNoLoadfile>>, <<>>, text)
    ELSE IF HasOK(t) THEN FlashOutcome(TRUE, <<>>, <<>>, text)
    ELSE IF HasProgramVerify(t) \/ HasProgramSpeed(t)
         THEN FlashOutcome(TRUE, <<>>, <<>>, text)
    ELSE FlashOutcome(FALSE, <<MsgNoMarker>>, <<>>, text)

\* a classifier that looks for 'O.K.' before it looks for 'loadfile'
analyze_output_ok_before_loadfile(text) ==
    IF IsFalsy(text) THEN FlashOutcome(FALSE, <<MsgNoOutput>>, <<>>, <<>>)
    ELSE LET t == Strip(text)
             errors == CollectErrors(t, 1)
         IN
         IF errors # <<>> THEN FlashOutcome(FALSE, errors, <<>>, text)
         ELSE IF HasOK(t) THEN FlashOutcome(TRUE, <<>>, <<>>, text)
         ELSE IF ~HasLoadfile(t) THEN FlashOutcome(FALSE, <<MsgNoLoadfile>>, <<>>, text)
         ELSE IF HasProgramVerify(t) \/ HasProgramSpeed(t)
              THEN FlashOutcome(TRUE, <<>>, <<>>, text)
         ELSE FlashOutcome(FALSE, <<MsgNoMarker>>, <<>>, text)

\* a classifier whose last rule reports success
analyze_output_optimistic_fallback(text) ==
    IF IsFalsy(text) THEN FlashOutcome(FALSE, <<MsgNoOutput>>, <<>>, <<>>)
    ELSE LET t == Strip(text)
             errors == CollectErrors(t, 1)
         IN
         IF errors # <<>> THEN FlashOutcome(FALSE, errors, <<>>, text)
         ELSE IF ~HasLoadfile(t) THEN FlashOutcome(FALSE, <<MsgNoLoadfile>>, <<>>, text)
         ELSE FlashOutcome(TRUE, <<>>, <<>>, text)

\* a classifier whose last rule reports a failure without a message
analyze_output_silent_fallback(text) ==
    IF IsFalsy(text) THEN FlashOutcome(FALSE, <<MsgNoOutput>>, <<>>, <<>>)
    ELSE LET t == Strip(text)
             errors == CollectErrors(t, 1)
         IN
         IF errors # <<>> THEN FlashOutcome(FALSE, errors, <<>>, text)
         ELSE IF ~HasLoadfile(t) THEN FlashOutcome(FALSE, <<MsgNoLoadfile>>, <<>>, text)
         ELSE IF HasOK(t) THEN FlashOutcome(TRUE, <<>>, <<>>, text)
         ELSE IF HasProgramVerify(t) \/ HasProgramSpeed(t)
              THEN FlashOutcome(TRUE, <<>>, <<>>, text)
         ELSE FlashOutcome(FALSE, <<>>, <<>>, text)

analyze_output(text) ==
    IF IsFalsy(text) THEN FlashOutcome(FALSE, <<MsgNoOutput>>, <<>>, <<>>)
    ELSE LET t == Strip(text)
             errors == CollectErrors(t, 1)
         IN
         IF errors # <<>> THEN FlashOutcome(FALSE, errors, <<>>, text)
         ELSE IF ~HasLoadfile(t) THEN FlashOutcome(FALSE, <<MsgNoLoadfile>>, <<>>, text)
         ELSE IF HasOK(t) THEN FlashOutcome(TRUE, <<>>, <<>>, text)
         ELSE IF HasProgramVerify(t) \/ HasProgramSpeed(t)
              THEN FlashOutcome(TRUE, <<>>, <<>>, text)
         ELSE FlashOutcome(FALSE, <<MsgNoMarker>>, <<>>, text)

\* ------------------------------------------------------------------------
\* jlink_commands.py: the primitive commands and their render()
\* ------------------------------------------------------------------------

DeviceCommand(device_line) == [op |-> "Device", a |-> <<device_line>>]
InterfaceCommand(interface) == [op |-> "Interface", a |-> <<interface>>]
SpeedCommand(speed) == [op |-> "Speed", a |-> <<speed>>]
ConnectCommand == [op |-> "Connect", a |-> <<>>]
UnlockKinetisCommand == [op |-> "UnlockKinetis", a |-> <<>>]
ResetCommand == [op |-> "Reset", a |-> <<>>]
EraseCommand == [op |-> "Erase", a |-> <<>>]
WriteRegisterCommand(width, addr, value) ==
    [op |-> "WriteRegister", a |-> <<width, addr, value>>]
SleepCommand(seconds) == [op |-> "Sleep", a |-> <<seconds>>]
LoadFileCommand(file_path) == [op |-> "LoadFile", a |-> <<file_path>>]
CommentCommand(comment) == [op |-> "Comment", a |-> <<comment>>]
GoCommand == [op |-> "Go", a |-> <<>>]
ExitCommand == [op |-> "Exit", a |-> <<>>]

\* str(n) / f"{n}" for the integers the scripts carry
ToStr(n) ==
    CASE n = 1 -> "1"
      [] n = 4 -> "4"
      [] n = 5 -> "5"
      [] n = 1000 -> "1000"
      [] n = 4000 -> "4000"

\* format(n, "08X"): a number is the sequence of its hexadecimal digits, most
\* significant first; the format pads it with zeros on the left to 8 digits
\* and never truncates
RECURSIVE Hex8(_)
Hex8(digits) == IF Len(digits) >= 8 THEN digits ELSE Hex8(<<"0">> \o digits)

\* JLinkCommand.render of each command class: one line of text
render(c) ==
    CASE c.op = "Device" -> <<c.a[1]>>
      [] c.op = "Interface" -> <<"IF ", c.a[1]>>
      [] c.op = "Speed" -> <<"Speed ", ToStr(c.a[1])>>
      [] c.op = "Connect" -> <<"connect">>
      [] c.op = "UnlockKinetis" -> <<"unlock kinetis">>
      [] c.op = "Reset" -> <<"r">>
      [] c.op = "Erase" -> <<"erase">>
      [] c.op = "WriteRegister" ->
            <<"w", ToStr(c.a[1]), " 0x">> \o Hex8(c.a[2]) \o <<", 0x">> \o Hex8(c.a[3])
      [] c.op = "Sleep" -> <<"Sleep ", ToStr(c.a[1])>>
      [] c.op = "LoadFile" -> <<"loadfile \"">> \o c.a[1] \o <<"\" 0x0">>
      [] c.op = "Comment" -> <<"// ", c.a[1]>>
      [] c.op = "Go" -> <<"g">>
      [] c.op = "Exit" -> <<"exit">>

\* "\n".join(lines)
RECURSIVE Join(_)
Join(lines) ==
    IF lines = <<>> THEN <<>>
    ELSE IF Len(lines) = 1 THEN lines[1]
    ELSE lines[1] \o <<"\n">> \o Join(Tail(lines))

\* ------------------------------------------------------------------------
\* FlasherService.get_device_line / build_script
\* ------------------------------------------------------------------------

\* str.upper() on a target name
Upper(s) ==
    CASE s \in {"IO", "io", "Io"} -> "IO"
      [] s \in {"DELSYS", "Delsys", "delsys"} -> "DELSYS"
      [] s \in {"LOGO", "Logo", "logo"} -> "LOGO"
      [] s \in {"FOO", "foo"} -> "FOO"
      [] OTHER -> s

\* str.lower() on a target name
LowerName(s) ==
    CASE s \in {"IO", "io", "Io"} -> "io"
      [] s \in {"DELSYS", "Delsys", "delsys"} -> "delsys"
      [] s \in {"LOGO", "Logo", "logo"} -> "logo"
      [] s \in {"FOO", "foo"} -> "foo"
      [] OTHER -> s

DEVICE_LINES ==
    [t \in {"IO", "DELSYS", "LOGO"} |->
        IF t = "IO" THEN "Device K32L3Axxxxxxxx_M4" ELSE "Device K32L2B31xxxxA"]

\* a lookup with the empty string as the default
get_device_line_empty_default(target) ==
    IF Upper(target) \in DOMAIN DEVICE_LINES
    THEN DEVICE_LINES[Upper(target)]
    ELSE ""

\* DEVICE_LINES.get(target.upper(), DEVICE_LINES["IO"])
get_device_line(target) ==
    IF Upper(target) \in DOMAIN DEVICE_LINES
    THEN DEVICE_LINES[Upper(target)]
    ELSE DEVICE_LINES["IO"]

\* the 32-bit literals of build_script, as hexadecimal digits
H40023004 == <<"4", "0", "0", "2", "3", "0", "0", "4">>
H40023000 == <<"4", "0", "0", "2", "3", "0", "0", "0">>
H40023008 == <<"4", "0", "0", "2", "3", "0", "0", "8">>
H44000000 == <<"4", "4", "0", "0", "0", "0", "0", "0">>
H43840000 == <<"4", "3", "8", "4", "0", "0", "0", "0">>
HFFFFF3FF == <<"F", "F", "F", "F", "F", "3", "F", "F">>
H70 == <<"7", "0">>
H80 == <<"8", "0">>

\* the IO-only block of build_script
io_cmds ==
    << CommentCommand("Program IFR FOPT field (IO only)"),
       WriteRegisterCommand(4, H40023004, H43840000),
       WriteRegisterCommand(4, H40023008, HFFFFF3FF),
       WriteRegisterCommand(1, H40023000, H70),
       WriteRegisterCommand(1, H40023000, H80),
       SleepCommand(5) >>

\* the commands of build_script up to the load-file command, with or without
\* the unlock command
head_cmds(s, target, firmware_file, unlock) ==
    << DeviceCommand(get_device_line(target)),
       InterfaceCommand(s.interface),
       SpeedCommand(s.speed_khz),
       ConnectCommand >>
    \o (IF unlock THEN <<UnlockKinetisCommand>> ELSE <<>>)
    \o << ResetCommand,
          EraseCommand,
          WriteRegisterCommand(4, H40023004, H44000000),
          WriteRegisterCommand(1, H40023000, H70),
          WriteRegisterCommand(1, H40023000, H80),
          SleepCommand(5) >>

\* a builder that unlocks only the IO target
build_cmds_unlock_io_only(s, target, firmware_file) ==
    head_cmds(s, target, firmware_file, Upper(target) = "IO")
    \o <<LoadFileCommand(firmware_file)>>
    \o (IF Upper(target) = "IO" THEN io_cmds ELSE <<>>)
    \o <<ResetCommand, GoCommand, ExitCommand>>

\* a builder that programs the IFR FOPT field before it loads the file
build_cmds_io_block_first(s, target, firmware_file) ==
    head_cmds(s, target, firmware_file, TRUE)
    \o (IF Upper(target) = "IO" THEN io_cmds ELSE <<>>)
    \o <<LoadFileCommand(firmware_file)>>
    \o <<ResetCommand, GoCommand, ExitCommand>>

\* a builder that takes every target with IO's device line for IO
build_cmds_io_by_device_line(s, target, firmware_file) ==
    head_cmds(s, target, firmware_file, TRUE)
    \o <<LoadFileCommand(firmware_file)>>
    \o (IF get_device_line(target) = DEVICE_LINES["IO"] THEN io_cmds ELSE <<>>)
    \o <<ResetCommand, GoCommand, ExitCommand>>

\* the command list of build_script, for a service s = [interface, speed_khz]
build_cmds(s, target, firmware_file) ==
    LET is_io == Upper(target) = "IO"
        cmds == << DeviceCommand(get_device_line(target)),
                   InterfaceCommand(s.interface),
                   SpeedCommand(s.speed_khz),
                   ConnectCommand,
                   UnlockKinetisCommand,
                   ResetCommand,
                   EraseCommand,
                   WriteRegisterCommand(4, H40023004, H44000000),
                   WriteRegisterCommand(1, H40023000, H70),
                   WriteRegisterCommand(1, H40023000, H80),
                   SleepCommand(5),
                   LoadFileCommand(firmware_file) >>
    IN cmds \o (IF is_io THEN io_cmds ELSE <<>>)
            \o <<ResetCommand, GoCommand, ExitCommand>>

\* build_script: the rendered lines joined by newlines
build_script(s, target, firmware_file) ==
    LET cmds == build_cmds(s, target, firmware_file)
    IN Join([i \in 1..Len(cmds) |-> render(cmds[i])])

\* ------------------------------------------------------------------------
\* FlasherService.find_firmware_file
\* ------------------------------------------------------------------------

DEFAULT_FIRMWARE_EXTS == {".axf", ".elf", ".bin", ".hex", ".s19", ".srec"}

\* str.lower() on a file name (a sequence of name fragments)
LowerFile(name) ==
    [i \in 1..Len(name) |->
        CASE name[i] = "FW" -> "fw"
          [] name[i] = ".AXF" -> ".axf"
          [] OTHER -> LowerName(name[i])]

\* sub in s, for two fragment sequences
Contains(s, sub) ==
    \E i \in 1..(Len(s) - Len(sub) + 1) : SubSeq(s, i, i + Len(sub) - 1) = sub

\* the directory of firmware folders that exist under firmware_root
ExistingFolders == {"FolderA"}

\* the first name of the listing that carries the tag and an allowed extension
RECURSIVE FirstMatch(_, _, _)
FirstMatch(names, search_tag, allowed_exts) ==
    IF names = <<>> THEN <<>>
    ELSE LET lower == LowerFile(Head(names)) IN
         IF Contains(lower, search_tag) /\ lower[Len(lower)] \in allowed_exts
         THEN Head(names)
         ELSE FirstMatch(Tail(names), search_tag, allowed_exts)

\* find_firmware_file: the joined path of the first match, or None (<<>>);
\* a folder that does not exist raises FileNotFoundError, which is caught
find_firmware_file(s, names, fold, search_tag) ==
    IF fold \notin ExistingFolders THEN <<>>
    ELSE LET name == FirstMatch(names, search_tag, s.allowed_exts) IN
         IF name = <<>> THEN <<>> ELSE <<s.firmware_root, "/", fold, "/">> \o name

\* ------------------------------------------------------------------------
\* State
\* ------------------------------------------------------------------------

VARIABLES
    pc,            \* position of the worker thread in _flash_worker
    svc,           \* AutoFlasherViewModel._svc: the FlasherService in force
    folder,        \* _flash_worker's folder argument
    target,        \* _flash_worker's target argument
    listing,       \* os.listdir of the firmware folder
    on_status,     \* is the on_status observer registered
    on_log,        \* is the on_log observer registered
    on_completed,  \* is the on_completed observer registered
    fw_path,       \* local fw_path (<<>> is None)
    script,        \* local script
    out,           \* local out: the text run_script returned
    outcome,       \* local outcome
    statuses,      \* what on_status received: <<msg, is_error>>
    logs,          \* what on_log received
    completed,     \* what on_completed received
    calls,         \* the FlasherService methods called, in order
    raised,        \* str(e) of the exception run_script raised, as <<str(e)>>
    used,          \* the FlasherService each of these calls was made on
    tmp_exists,    \* the temporary script file of this attempt exists
    remove_failed, \* os.remove of that file raised (and was swallowed)
    status_raises, \* calls of the on_status observer may raise
    log_raises,    \* calls of the on_log observer may raise
    flash_button,  \* state of the view's Flash button
    threads,       \* worker threads started and not yet ended
    saved,         \* arguments of the latest save_config call
    start_id       \* id of the service in force when the attempt started

vars == <<pc, svc, folder, target, listing, on_status, on_log, on_completed,
          fw_path, script, out, outcome, statuses, logs, completed, calls,
          raised, used, tmp_exists, remove_failed, status_raises, log_raises,
          flash_button, threads, saved, start_id>>

\* ------------------------------------------------------------------------
\* Inputs
\* ------------------------------------------------------------------------

\* at most this many files in the firmware folder
MaxFiles == 2

\* at most this many fragments in what run_script returns to the worker
MaxOutFrags == 2

\* the sequences of at most n elements of S
SeqsUpTo(S, n) == UNION {[1..k -> S] : k \in 0..n}

RECURSIVE Flatten(_)
Flatten(ss) == IF ss = <<>> THEN <<>> ELSE Head(ss) \o Flatten(Tail(ss))

\* pieces of J-Link Commander output
Fragments ==
    { <<"loadfile">>, <<"LoadFile">>, <<"O.K.">>,
      <<"Program", " ", "&", "\n", "Verify">>, <<"Program", " ", "speed">>,
      <<"Verification of RAMCode failed">>, <<"Failed to prepare for programming">>,
      <<"Target voltage too low">>,
      <<"ERROR", ":">>, <<"Error", " ", "occurred:">>,
      <<"Unspecified", " ", "error">>, <<"J-Link">>, <<"error">>,
      <<"\n">>, <<" ">>, <<"x">> }

\* the output texts of at most n fragments
Texts(n) == {Flatten(fs) : fs \in SeqsUpTo(Fragments, n)}

\* pieces of output the worker's run_script returns
OutFragments ==
    { <<"loadfile">>, <<"O.K.">>, <<"Error", ":">>,
      <<"Verification of RAMCode failed">>, <<"\n">> }

RunOutputs == {Flatten(fs) : fs \in SeqsUpTo(OutFragments, MaxOutFrags)}

\* str(e) of the exceptions subprocess.run raises (<<>> is the empty string)
Exceptions == {<<"[Errno 2] No such file or directory">>, <<>>}

Targets == {"", "IO", "io", "Delsys", "LOGO", "foo"}

Folders == {"", "FolderA", "Gone"}

FileNames ==
    { <<"fw", "_", "io", "_", "v1", ".axf">>,
      <<"FW", "_", "IO", "_", "v2", ".AXF">>,
      <<"fw", "_", "io", "_", "v1", ".txt">>,
      <<"fw", "_", "logo", "_", "v1", ".hex">>,
      <<"fw", "_", "delsys", ".bin">> }

\* the services _make_service builds
Services ==
    [id : {0}, jlink_path : {"JLinkExe"},
     interface : {"SWD", "JTAG"}, speed_khz : {4000, 1000},
     firmware_root : {"firmware"}, allowed_exts : {DEFAULT_FIRMWARE_EXTS}]

\* the service of a configuration with the default values; id tells the
\* instances apart that _make_service creates one after the other
DefaultService ==
    [id |-> 0, jlink_path |-> "JLinkExe",
     interface |-> "SWD", speed_khz |-> 4000,
     firmware_root |-> "firmware", allowed_exts |-> DEFAULT_FIRMWARE_EXTS]

\* no save_config call so far
NoSave == [jlink_path |-> "(none)", interface |-> "(none)", speed_khz |-> 0,
           firmware_root |-> "(none)"]

\* no outcome assigned yet
NoOutcome == FlashOutcome(FALSE, <<>>, <<>>, <<"(unset)">>)

\* the locals and observer records of a worker that has not run
Fresh ==
    /\ fw_path = <<>>
    /\ script = <<>>
    /\ outcome = NoOutcome
    /\ statuses = <<>>
    /\ logs = <<>>
    /\ completed = <<>>
    /\ calls = <<>>
    /\ raised = <<>>
    /\ used = <<>>
    /\ tmp_exists = FALSE
    /\ remove_failed = FALSE

\* one attempt under way, started outside the view: observers that do not
\* raise, the Flash button as on_flash leaves it, no save_config so far
Attached ==
    /\ status_raises = FALSE
    /\ log_raises = FALSE
    /\ flash_button = "disabled"
    /\ threads = 1
    /\ saved = NoSave
    /\ start_id = 0

\* ------------------------------------------------------------------------
\* AutoFlasherViewModel._emit_status and _flash_worker
\* ------------------------------------------------------------------------

Status(msg, is_error) == [msg |-> msg, is_error |-> is_error]

\* _emit_status: on_status then on_log, each only when registered
emit_status(msg, is_error) ==
    /\ statuses' = IF on_status THEN Append(statuses, Status(msg, is_error)) ELSE statuses
    /\ logs' = IF on_log THEN Append(logs, Status(msg, is_error)) ELSE logs

\* if self.on_completed: self.on_completed(o)
\* (the observer, when registered, is the view's _on_completed, which ends
\* with flash_button.config(state="normal"))
complete(o) ==
    /\ completed' = IF on_completed THEN Append(completed, o) ELSE completed
    /\ flash_button' = IF on_completed THEN "normal" ELSE flash_button

MsgBothRequired == <<"Both folder and target must be selected.">>
MsgMissing == <<"Missing selections.">>
MsgSearching == <<"Searching for firmware file...">>
MsgBuilding == <<"Building J-Link script...">>
MsgFlashing == <<"Flashing device. Please wait...">>
MsgSuccess == <<"Flashing completed successfully!">>
MsgFailed == <<"Flash appears to have failed.">>

\* f"_{target.lower()}_"
SearchTag(t) == <<"_", LowerName(t), "_">>

\* f"No file containing '{search_tag}' found in {folder}"
MsgNotFound(search_tag, fold) ==
    <<"No file containing '">> \o search_tag \o <<"' found in ", fold>>

\* lines 92-96: a selection is missing
MissingSelections ==
    /\ pc = "start"
    /\ folder = "" \/ target = ""
    /\ emit_status(MsgBothRequired, TRUE)
    /\ complete(FlashOutcome(FALSE, <<MsgMissing>>, <<>>, <<>>))
    /\ threads' = threads - 1
    /\ pc' = "done"
    /\ UNCHANGED <<svc, folder, target, listing, on_status, on_log, on_completed,
                   status_raises, log_raises, saved, start_id,
                   tmp_exists, remove_failed, used,
                   fw_path, script, out, outcome, calls, raised>>

\* line 98
BeginSearch ==
    /\ pc = "start"
    /\ folder # "" /\ target # ""
    /\ emit_status(MsgSearching, FALSE)
    /\ pc' = "search"
    /\ UNCHANGED <<svc, folder, target, listing, on_status, on_log, on_completed,
                   status_raises, log_raises, saved, start_id, threads,
                   flash_button, tmp_exists, remove_failed, used,
                   fw_path, script, out, outcome, completed, calls, raised>>

\* a lookup failure that returns without telling the completion observer
FileNotFound_silent ==
    /\ pc = "search"
    /\ LET search_tag == SearchTag(target)
           p == find_firmware_file(svc, listing, folder, search_tag)
       IN /\ p = <<>>
          /\ fw_path' = p
          /\ emit_status(MsgNotFound(search_tag, folder), TRUE)
    /\ calls' = Append(calls, "find_firmware_file")
    /\ used' = Append(used, svc)
    /\ threads' = threads - 1
    /\ pc' = "done"
    /\ UNCHANGED <<svc, folder, target, listing, on_status, on_log, on_completed,
                   status_raises, log_raises, saved, start_id,
                   flash_button, tmp_exists, remove_failed,
                   script, out, outcome, completed, raised>>

\* lines 99-106: the file locator finds nothing
FileNotFound ==
    /\ pc = "search"
    /\ LET search_tag == SearchTag(target)
           p == find_firmware_file(svc, listing, folder, search_tag)
           msg == MsgNotFound(search_tag, folder)
       IN /\ p = <<>>
          /\ fw_path' = p
          /\ emit_status(msg, TRUE)
          /\ complete(FlashOutcome(FALSE, <<msg>>, <<>>, <<>>))
    /\ calls' = Append(calls, "find_firmware_file")
    /\ used' = Append(used, svc)
    /\ threads' = threads - 1
    /\ pc' = "done"
    /\ UNCHANGED <<svc, folder, target, listing, on_status, on_log, on_completed,
                   status_raises, log_raises, saved, start_id,
                   tmp_exists, remove_failed,
                   script, out, outcome, raised>>

\* a worker that goes on to build whatever the file locator returned
FileFound_unchecked ==
    /\ pc = "search"
    /\ fw_path' = find_firmware_file(svc, listing, folder, SearchTag(target))
    /\ calls' = Append(calls, "find_firmware_file")
    /\ used' = Append(used, svc)
    /\ emit_status(MsgBuilding, FALSE)
    /\ pc' = "build"
    /\ UNCHANGED <<svc, folder, target, listing, on_status, on_log, on_completed,
                   status_raises, log_raises, saved, start_id, threads,
                   flash_button, tmp_exists, remove_failed,
                   script, out, outcome, completed, raised>>

\* lines 99-101 and 108: the file locator finds a file
FileFound ==
    /\ pc = "search"
    /\ LET p == find_firmware_file(svc, listing, folder, SearchTag(target))
       IN /\ p # <<>>
          /\ fw_path' = p
    /\ calls' = Append(calls, "find_firmware_file")
    /\ used' = Append(used, svc)
    /\ emit_status(MsgBuilding, FALSE)
    /\ pc' = "build"
    /\ UNCHANGED <<svc, folder, target, listing, on_status, on_log, on_completed,
                   status_raises, log_raises, saved, start_id, threads,
                   flash_button, tmp_exists, remove_failed,
                   script, out, outcome, completed, raised>>

\* lines 109-111
Build ==
    /\ pc = "build"
    /\ script' = build_script(svc, target, fw_path)
    /\ calls' = Append(calls, "build_script")
    /\ used' = Append(used, svc)
    /\ emit_status(MsgFlashing, FALSE)
    /\ pc' = "run"
    /\ UNCHANGED <<svc, folder, target, listing, on_status, on_log, on_completed,
                   status_raises, log_raises, saved, start_id, threads,
                   flash_button, tmp_exists, remove_failed,
                   fw_path, out, outcome, completed, raised>>

\* what os.remove(script_path) does in run_script's finally block: it
\* returns, or it raises and "except Exception: pass" swallows that
RemoveResults == {"removed", "failed"}

\* run_script's temporary file after the finally block: NamedTemporaryFile
\* (delete=False) has created it, os.remove has been tried
run_script_finally(r) ==
    /\ tmp_exists' = (r = "failed")
    /\ remove_failed' = (r = "failed")

\* lines 113-115: run_script returns the tool's output
RunReturns ==
    /\ pc = "run"
    /\ \E r \in RemoveResults : run_script_finally(r)
    /\ \E o \in RunOutputs :
          /\ out' = o
          /\ logs' = IF on_log
                     THEN Append(logs, Status(<<"--- J-Link output ---\n">> \o o, FALSE))
                     ELSE logs
    /\ calls' = Append(calls, "run_script")
    /\ used' = Append(used, svc)
    /\ pc' = "analyze"
    /\ UNCHANGED <<svc, folder, target, listing, on_status, on_log, on_completed,
                   status_raises, log_raises, saved, start_id,
                   threads, flash_button,
                   fw_path, script, outcome, statuses, completed, raised>>

\* a worker without the try/except: the exception ends the thread
RunRaises_uncaught ==
    /\ pc = "run"
    /\ \E r \in RemoveResults : run_script_finally(r)
    /\ \E e \in Exceptions : raised' = <<e>>
    /\ calls' = Append(calls, "run_script")
    /\ used' = Append(used, svc)
    /\ threads' = threads - 1
    /\ pc' = "done"
    /\ UNCHANGED <<svc, folder, target, listing, on_status, on_log, on_completed,
                   status_raises, log_raises, saved, start_id, flash_button,
                   fw_path, script, out, outcome, statuses, logs, completed>>

\* a run_script that removes its file only after a normal return
RunRaises_no_finally ==
    /\ pc = "run"
    /\ tmp_exists' = TRUE
    /\ remove_failed' = FALSE
    /\ \E e \in Exceptions :
          /\ raised' = <<e>>
          /\ outcome' = FlashOutcome(FALSE, <<e>>, <<>>, <<>>)
    /\ calls' = Append(calls, "run_script")
    /\ used' = Append(used, svc)
    /\ pc' = "final"
    /\ UNCHANGED <<svc, folder, target, listing, on_status, on_log, on_completed,
                   status_raises, log_raises, saved, start_id, threads, flash_button,
                   fw_path, script, out, statuses, logs, completed>>

\* lines 113, 117-118: run_script raises
RunRaises ==
    /\ pc = "run"
    /\ \E r \in RemoveResults : run_script_finally(r)
    /\ \E e \in Exceptions :
          /\ raised' = <<e>>
          /\ outcome' = FlashOutcome(FALSE, <<e>>, <<>>, <<>>)
    /\ calls' = Append(calls, "run_script")
    /\ used' = Append(used, svc)
    /\ pc' = "final"
    /\ UNCHANGED <<svc, folder, target, listing, on_status, on_log, on_completed,
                   status_raises, log_raises, saved, start_id,
                   threads, flash_button,
                   fw_path, script, out, statuses, logs, completed>>

\* line 116
Analyze ==
    /\ pc = "analyze"
    /\ outcome' = analyze_output(out)
    /\ calls' = Append(calls, "analyze_output")
    /\ used' = Append(used, svc)
    /\ pc' = "final"
    /\ UNCHANGED <<svc, folder, target, listing, on_status, on_log, on_completed,
                   status_raises, log_raises, saved, start_id, threads,
                   flash_button, tmp_exists, remove_failed,
                   fw_path, script, out, statuses, logs, completed, raised>>

\* a worker whose last status is the success message whatever the outcome
FinalStatus_always_success ==
    /\ pc = "final"
    /\ emit_status(MsgSuccess, FALSE)
    /\ pc' = "complete"
    /\ UNCHANGED <<svc, folder, target, listing, on_status, on_log, on_completed,
                   status_raises, log_raises, saved, start_id, threads,
                   flash_button, tmp_exists, remove_failed, used,
                   fw_path, script, out, outcome, completed, calls, raised>>

\* lines 121-124
FinalStatus ==
    /\ pc = "final"
    /\ IF outcome.success
       THEN emit_status(MsgSuccess, FALSE)
       ELSE emit_status(MsgFailed, TRUE)
    /\ pc' = "complete"
    /\ UNCHANGED <<svc, folder, target, listing, on_status, on_log, on_completed,
                   status_raises, log_raises, saved, start_id, threads,
                   flash_button, tmp_exists, remove_failed, used,
                   fw_path, script, out, outcome, completed, calls, raised>>

\* lines 126-127
Complete ==
    /\ pc = "complete"
    /\ complete(outcome)
    /\ threads' = threads - 1
    /\ pc' = "done"
    /\ UNCHANGED <<svc, folder, target, listing, on_status, on_log, on_completed,
                   status_raises, log_raises, saved, start_id,
                   tmp_exists, remove_failed, used,
                   fw_path, script, out, outcome, statuses, logs, calls, raised>>

\* one flash attempt: _flash_worker(folder, target) on any inputs
Init ==
    /\ pc = "start"
    /\ svc = DefaultService
    /\ folder \in Folders
    /\ target \in Targets
    /\ listing \in SeqsUpTo(FileNames, MaxFiles)
    /\ on_status \in BOOLEAN
    /\ on_log \in BOOLEAN
    /\ on_completed \in BOOLEAN
    /\ out = <<>>
    /\ Fresh
    /\ Attached

Next ==
    \/ MissingSelections
    \/ BeginSearch
    \/ FileNotFound
    \/ FileFound
    \/ Build
    \/ RunReturns
    \/ RunRaises
    \/ Analyze
    \/ FinalStatus
    \/ Complete

Spec == Init /\ [][Next]_vars

\* ------------------------------------------------------------------------
\* _flash_worker with observers whose calls may raise
\* ------------------------------------------------------------------------

\* str(e) of the exception an observer raises
ObserverError == <<"observer failed">>

\* _emit_status when one of its two calls raises: on_status raises and
\* on_log is not reached, or on_status (if registered) returns and on_log
\* raises; the exception leaves _emit_status
emit_status_raises(msg, is_error) ==
    \/ /\ on_status /\ status_raises
       /\ UNCHANGED <<statuses, logs>>
    \/ /\ on_log /\ log_raises
       /\ statuses' = IF on_status THEN Append(statuses, Status(msg, is_error))
                      ELSE statuses
       /\ logs' = logs

\* lines 93 and 98: the first _emit_status of the worker raises; nothing
\* catches it and the thread ends
StartEmitRaises ==
    /\ pc = "start"
    /\ IF folder = "" \/ target = ""
       THEN emit_status_raises(MsgBothRequired, TRUE)
       ELSE emit_status_raises(MsgSearching, FALSE)
    /\ threads' = threads - 1
    /\ pc' = "crashed"
    /\ UNCHANGED <<svc, folder, target, listing, on_status, on_log, on_completed,
                   status_raises, log_raises, saved, start_id, flash_button,
                   tmp_exists, remove_failed, used,
                   fw_path, script, out, outcome, completed, calls, raised>>

\* lines 100-108: find_firmware_file has returned and the _emit_status
\* that follows raises
SearchEmitRaises ==
    /\ pc = "search"
    /\ LET search_tag == SearchTag(target)
           p == find_firmware_file(svc, listing, folder, search_tag)
       IN /\ fw_path' = p
          /\ IF p = <<>>
             THEN emit_status_raises(MsgNotFound(search_tag, folder), TRUE)
             ELSE emit_status_raises(MsgBuilding, FALSE)
    /\ calls' = Append(calls, "find_firmware_file")
    /\ used' = Append(used, svc)
    /\ threads' = threads - 1
    /\ pc' = "crashed"
    /\ UNCHANGED <<svc, folder, target, listing, on_status, on_log, on_completed,
                   status_raises, log_raises, saved, start_id, flash_button,
                   tmp_exists, remove_failed,
                   script, out, outcome, completed, raised>>

\* lines 109-111: build_script has returned and _emit_status raises
BuildEmitRaises ==
    /\ pc = "build"
    /\ script' = build_script(svc, target, fw_path)
    /\ calls' = Append(calls, "build_script")
    /\ used' = Append(used, svc)
    /\ emit_status_raises(MsgFlashing, FALSE)
    /\ threads' = threads - 1
    /\ pc' = "crashed"
    /\ UNCHANGED <<svc, folder, target, listing, on_status, on_log, on_completed,
                   status_raises, log_raises, saved, start_id, flash_button,
                   tmp_exists, remove_failed,
                   fw_path, out, outcome, completed, raised>>

\* lines 113-118: run_script has returned and the on_log call of line 115
\* raises inside the try block; the except clause makes a failure outcome
\* of it and analyze_output is not called
RunLogRaises ==
    /\ pc = "run"
    /\ on_log /\ log_raises
    /\ \E r \in RemoveResults : run_script_finally(r)
    /\ \E o \in RunOutputs : out' = o
    /\ outcome' = FlashOutcome(FALSE, <<ObserverError>>, <<>>, <<>>)
    /\ calls' = Append(calls, "run_script")
    /\ used' = Append(used, svc)
    /\ pc' = "final"
    /\ UNCHANGED <<svc, folder, target, listing, on_status, on_log, on_completed,
                   status_raises, log_raises, saved, start_id, threads, flash_button,
                   fw_path, script, statuses, logs, completed, raised>>

\* lines 121-124: the final _emit_status raises and on_completed is never
\* called
FinalEmitRaises ==
    /\ pc = "final"
    /\ IF outcome.success
       THEN emit_status_raises(MsgSuccess, FALSE)
       ELSE emit_status_raises(MsgFailed, TRUE)
    /\ threads' = threads - 1
    /\ pc' = "crashed"
    /\ UNCHANGED <<svc, folder, target, listing, on_status, on_log, on_completed,
                   status_raises, log_raises, saved, start_id, flash_button,
                   tmp_exists, remove_failed, used,
                   fw_path, script, out, outcome, completed, calls, raised>>

\* one flash attempt with observers that are absent, sound or faulty
InitObs ==
    /\ pc = "start"
    /\ svc = DefaultService
    /\ folder \in Folders
    /\ target \in Targets
    /\ listing \in SeqsUpTo(FileNames, MaxFiles)
    /\ on_status \in BOOLEAN
    /\ on_log \in BOOLEAN
    /\ on_completed \in BOOLEAN
    /\ status_raises \in {b \in BOOLEAN : b => on_status}
    /\ log_raises \in {b \in BOOLEAN : b => on_log}
    /\ out = <<>>
    /\ Fresh
    /\ flash_button = "disabled"
    /\ threads = 1
    /\ saved = NoSave
    /\ start_id = 0

NextObs ==
    \/ MissingSelections
    \/ BeginSearch
    \/ FileNotFound
    \/ FileFound
    \/ Build
    \/ RunReturns
    \/ RunRaises
    \/ Analyze
    \/ FinalStatus
    \/ Complete
    \/ StartEmitRaises
    \/ SearchEmitRaises
    \/ BuildEmitRaises
    \/ RunLogRaises
    \/ FinalEmitRaises

SpecObs == InitObs /\ [][NextObs]_vars

\* ------------------------------------------------------------------------
\* main_view.py: the Flash button; flasher_vm.py: flash_async, save_config
\* ------------------------------------------------------------------------

\* at most this many worker threads are started at the same time
MaxThreads == 2

\* at most this many calls of save_config
MaxSaves == 2

SUPPORTED_TARGETS == {"IO", "Delsys", "Logo"}

\* flash_async: a new thread runs _flash_worker(f, t) from its first line,
\* with locals and observer records of its own
flash_async(f, t) ==
    /\ threads' = threads + 1
    /\ pc' = "start"
    /\ folder' = f
    /\ target' = t
    /\ start_id' = svc.id
    /\ fw_path' = <<>>
    /\ script' = <<>>
    /\ out' = <<>>
    /\ outcome' = NoOutcome
    /\ statuses' = <<>>
    /\ logs' = <<>>
    /\ completed' = <<>>
    /\ calls' = <<>>
    /\ raised' = <<>>
    /\ used' = <<>>
    /\ tmp_exists' = FALSE
    /\ remove_failed' = FALSE

\* a Flash handler that leaves the button enabled
on_flash_keeps_enabled ==
    /\ flash_button = "normal"
    /\ threads < MaxThreads
    /\ \E f \in Folders : \E t \in SUPPORTED_TARGETS : flash_async(f, t)
    /\ UNCHANGED <<svc, listing, on_status, on_log, on_completed,
                   status_raises, log_raises, saved, flash_button>>

\* on_flash: the command of the Flash button, which Tk runs only while the
\* button is enabled; the folder and the target are the selections
on_flash ==
    /\ flash_button = "normal"
    /\ threads < MaxThreads
    /\ flash_button' = "disabled"
    /\ \E f \in Folders : \E t \in SUPPORTED_TARGETS : flash_async(f, t)
    /\ UNCHANGED <<svc, listing, on_status, on_log, on_completed,
                   status_raises, log_raises, saved>>

\* the steps of the worker thread
Worker ==
    \/ MissingSelections
    \/ BeginSearch
    \/ FileNotFound
    \/ FileFound
    \/ Build
    \/ RunReturns
    \/ RunRaises
    \/ Analyze
    \/ FinalStatus
    \/ Complete

\* the firmware folder the attempts started from the view look into: empty,
\* or with a file for IO and one for Delsys
ViewListings ==
    { <<>>,
      << <<"fw", "_", "io", "_", "v1", ".axf">>, <<"fw", "_", "delsys", ".bin">> >> }

\* the application after AutoFlasherApp.__init__: the three observers are
\* the view's handlers, the Flash button is enabled, no thread runs
InitView ==
    /\ pc = "idle"
    /\ svc = DefaultService
    /\ folder = ""
    /\ target = ""
    /\ listing \in ViewListings
    /\ on_status = TRUE
    /\ on_log = TRUE
    /\ on_completed = TRUE
    /\ status_raises = FALSE
    /\ log_raises = FALSE
    /\ out = <<>>
    /\ Fresh
    /\ flash_button = "normal"
    /\ threads = 0
    /\ saved = NoSave
    /\ start_id = 0

NextView ==
    \/ on_flash
    \/ MissingSelections
    \/ BeginSearch
    \/ FileNotFound
    \/ FileFound
    \/ Build
    \/ RunReturns
    \/ RunRaises
    \/ Analyze
    \/ FinalStatus
    \/ Complete

SpecView == InitView /\ [][NextView]_vars

\* a started thread is scheduled until _flash_worker returns, and the
\* external tool of run_script ends
FairSpecView == SpecView /\ WF_vars(Worker)

\* the arguments of save_config the settings editor passes
SaveArgs ==
    { [jlink_path |-> "C:/JLink.exe", interface |-> "JTAG", speed_khz |-> 1000,
       firmware_root |-> "fw2"],
      [jlink_path |-> " JLinkExe ", interface |-> " SWD ", speed_khz |-> 4000,
       firmware_root |-> " firmware "],
      [jlink_path |-> "", interface |-> "", speed_khz |-> 0,
       firmware_root |-> ""] }

\* str.strip() on the strings of SaveArgs
StripName(x) ==
    CASE x = " JLinkExe " -> "JLinkExe"
      [] x = " SWD " -> "SWD"
      [] x = " firmware " -> "firmware"
      [] OTHER -> x

\* (x or d) of a string and of a number
OrStr(x, d) == IF x = "" THEN d ELSE x

OrInt(x, d) == IF x = 0 THEN d ELSE x

MsgSaved == <<"Configuration saved. Some changes apply immediately.">>

\* the service _make_service builds from the configuration save_config has
\* stored for the arguments a; _resolve_jlink_path puts the default tool in
\* the place of an empty path
make_service(a, id) ==
    [id |-> id,
     jlink_path |-> OrStr(StripName(a.jlink_path), "JLinkExe"),
     interface |-> StripName(OrStr(a.interface, "SWD")),
     speed_khz |-> OrInt(a.speed_khz, 4000),
     firmware_root |-> StripName(OrStr(a.firmware_root, "firmware")),
     allowed_exts |-> DEFAULT_FIRMWARE_EXTS]

\* a save_config that stores the configuration and keeps the old service
SaveConfig_keeps_service ==
    /\ svc.id < MaxSaves
    /\ \E a \in SaveArgs : saved' = a
    /\ svc' = [svc EXCEPT !.id = svc.id + 1]
    /\ emit_status(MsgSaved, FALSE)
    /\ UNCHANGED <<pc, folder, target, listing, on_status, on_log, on_completed,
                   status_raises, log_raises, flash_button, threads, start_id,
                   tmp_exists, remove_failed, used,
                   fw_path, script, out, outcome, completed, calls, raised>>

\* save_config, called on the control thread by the settings editor's Save
SaveConfig ==
    /\ svc.id < MaxSaves
    /\ \E a \in SaveArgs :
          /\ saved' = a
          /\ svc' = make_service(a, svc.id + 1)
    /\ emit_status(MsgSaved, FALSE)
    /\ UNCHANGED <<pc, folder, target, listing, on_status, on_log, on_completed,
                   status_raises, log_raises, flash_button, threads, start_id,
                   tmp_exists, remove_failed, used,
                   fw_path, script, out, outcome, completed, calls, raised>>

InitConfig == InitView

NextConfig ==
    \/ on_flash
    \/ SaveConfig
    \/ MissingSelections
    \/ BeginSearch
    \/ FileNotFound
    \/ FileFound
    \/ Build
    \/ RunReturns
    \/ RunRaises
    \/ Analyze
    \/ FinalStatus
    \/ Complete

SpecConfig == InitConfig /\ [][NextConfig]_vars

\* ------------------------------------------------------------------------
\* analyze_output as a function of its text
\* ------------------------------------------------------------------------

InitAnalyze ==
    /\ pc = "text"
    /\ svc = DefaultService
    /\ folder = ""
    /\ target = ""
    /\ listing = <<>>
    /\ on_status = FALSE
    /\ on_log = FALSE
    /\ on_completed = FALSE
    /\ out \in Texts(MaxFrags) \cup {None}
    /\ Fresh
    /\ Attached

AnalyzeText ==
    /\ pc = "text"
    /\ outcome' = analyze_output(out)
    /\ pc' = "classified"
    /\ UNCHANGED <<svc, folder, target, listing, on_status, on_log, on_completed,
                   status_raises, log_raises, saved, start_id, threads,
                   flash_button, tmp_exists, remove_failed, used,
                   fw_path, script, out, statuses, logs, completed, calls, raised>>

NextAnalyze == AnalyzeText

SpecAnalyze == InitAnalyze /\ [][NextAnalyze]_vars

\* ------------------------------------------------------------------------
\* build_script as a function of the service, the target and the file
\* ------------------------------------------------------------------------

BuildTargets == {"IO", "io", "Io", "DELSYS", "Delsys", "LOGO", "logo", "FOO", "foo", "K32"}

FirmwarePaths ==
    { <<"C:/firm.axf">>,
      <<"firmware", "/", "FolderA", "/", "fw", "_", "io", "_", "v1", ".axf">>,
      <<"firmware", "/", "FolderA", "/", "fw", "_", "logo", "_", "v1", ".hex">> }

InitBuild ==
    /\ pc = "args"
    /\ svc \in Services
    /\ folder = ""
    /\ target \in BuildTargets
    /\ listing = <<>>
    /\ on_status = FALSE
    /\ on_log = FALSE
    /\ on_completed = FALSE
    /\ out = <<>>
    /\ fw_path \in FirmwarePaths
    /\ script = <<>>
    /\ outcome = NoOutcome
    /\ statuses = <<>>
    /\ logs = <<>>
    /\ completed = <<>>
    /\ calls = <<>>
    /\ raised = <<>>
    /\ used = <<>>
    /\ tmp_exists = FALSE
    /\ remove_failed = FALSE
    /\ Attached

BuildScript ==
    /\ pc = "args"
    /\ script' = build_script(svc, target, fw_path)
    /\ pc' = "built"
    /\ UNCHANGED <<svc, folder, target, listing, on_status, on_log, on_completed,
                   status_raises, log_raises, saved, start_id, threads,
                   flash_button, tmp_exists, remove_failed, used,
                   fw_path, out, outcome, statuses, logs, completed, calls, raised>>

NextBuild == BuildScript

SpecBuild == InitBuild /\ [][NextBuild]_vars

\* ------------------------------------------------------------------------
\* Every way a FlashOutcome comes into being: analyze_output on any text,
\* and the attempts started from the view
\* ------------------------------------------------------------------------

InitOutcomes == InitAnalyze \/ InitView

NextOutcomes ==
    \/ AnalyzeText
    \/ on_flash
    \/ MissingSelections
    \/ BeginSearch
    \/ FileNotFound
    \/ FileFound
    \/ Build
    \/ RunReturns
    \/ RunRaises
    \/ Analyze
    \/ FinalStatus
    \/ Complete

SpecOutcomes == InitOutcomes /\ [][NextOutcomes]_vars

\* ------------------------------------------------------------------------
\* Properties of analyze_output (checked under SpecAnalyze)
\* ------------------------------------------------------------------------

\* the text carries one of the success markers, in any case
SuccessMarkerIn(t) == HasOK(t) \/ HasProgramVerify(t) \/ HasProgramSpeed(t)

\* the text carries the 'loadfile' marker, in any case
LoadfileMarkerIn(t) == Contains(Lower(t), <<"loadfile">>)

\* some fatal-error pattern matches somewhere in the text
FatalPatternIn(t) ==
    \E p \in 1..Len(error_patterns) :
        \E i \in 1..Len(t) : MatchAt(error_patterns[p], t, i) # 0

C2_ErrorsOutrankMarkers ==
    (pc = "classified" /\ FatalPatternIn(out)) =>
        (~outcome.success /\ outcome.errors # <<>>)

\* an error followed by 'O.K.' in a text that has 'loadfile'
C2_Witness ==
    /\ pc = "classified"
    /\ LoadfileMarkerIn(out)
    /\ \E i \in 1..Len(out) : \E j \in (i + 1)..Len(out) :
          /\ \E p \in 1..Len(error_patterns) : MatchAt(error_patterns[p], out, i) # 0
          /\ LowerTok(out[j]) = "o.k."
    /\ ~outcome.success

\* the matches of all patterns in the stripped text: <<pattern, start, end>>
MatchSet(t) ==
    UNION { LET ms == FindIter(error_patterns[p], t, 1)
            IN {<<p, ms[k][1], ms[k][2]>> : k \in 1..Len(ms)}
            : p \in 1..Len(error_patterns) }

\* order by pattern, then by place in the text
PatternBefore(a, b) == a[1] < b[1] \/ (a[1] = b[1] /\ a[2] < b[2])

\* order by place in the text (then by pattern)
TextBefore(a, b) == a[2] < b[2] \/ (a[2] = b[2] /\ a[1] < b[1])

RECURSIVE InPatternOrder(_)
InPatternOrder(S) ==
    IF S = {} THEN <<>>
    ELSE LET m == CHOOSE x \in S : \A y \in S \ {x} : PatternBefore(x, y)
         IN <<m>> \o InPatternOrder(S \ {m})

RECURSIVE InTextOrder(_)
InTextOrder(S) ==
    IF S = {} THEN <<>>
    ELSE LET m == CHOOSE x \in S : \A y \in S \ {x} : TextBefore(x, y)
         IN <<m>> \o InTextOrder(S \ {m})

\* the matched substrings of a list of matches
Substrings(t, ms) == [k \in 1..Len(ms) |-> SubSeq(t, ms[k][2], ms[k][3])]

C4_ExactlyOneCompletion ==
    on_completed =>
        /\ Len(completed) <= 1
        /\ pc = "done" => Len(completed) = 1

\* an attempt that went through all four steps and delivered a success
C4_Witness ==
    /\ pc = "done"
    /\ on_completed
    /\ calls = <<"find_firmware_file", "build_script", "run_script", "analyze_output">>
    /\ Len(completed) = 1
    /\ completed[1].success

\* C5: when run_script raises, the worker goes on with a failure outcome whose
\* errors list is exactly [str(e)]; it still emits the final error status and
\* delivers that outcome; the classifier is not called.
C5_RunFailureBecomesOutcome ==
    raised # <<>> =>
        /\ pc \in {"final", "complete", "done"}
        /\ ~outcome.success
        /\ outcome.errors = raised
        /\ \A k \in 1..Len(calls) : calls[k] # "analyze_output"
        /\ pc = "done" =>
              /\ on_completed => completed = <<outcome>>
              /\ on_status => statuses[Len(statuses)] = Status(MsgFailed, TRUE)

\* an attempt whose run_script raised and that has ended, observers registered
C5_Witness ==
    /\ raised # <<>>
    /\ pc = "done"
    /\ on_completed
    /\ on_status
    /\ completed = <<FlashOutcome(FALSE, raised, <<>>, <<>>)>>

\* no file of the folder carries the tag and an allowed extension
NoFirmwareFor(search_tag) ==
    \/ folder \notin ExistingFolders
    \/ \A k \in 1..Len(listing) :
          LET lower == LowerFile(listing[k]) IN
          ~(Contains(lower, search_tag) /\ lower[Len(lower)] \in svc.allowed_exts)

\* C6: when the file locator finds no file for the tag '_<target lowercased>_',
\* the attempt never calls build_script, run_script or analyze_output, and it
\* ends with one failure outcome whose single error names the tag and the
\* folder.
C6_LookupFailureFailsFast ==
    (folder # "" /\ target # "" /\ NoFirmwareFor(<<"_", LowerName(target), "_">>)) =>
        /\ \A k \in 1..Len(calls) :
              calls[k] \notin {"build_script", "run_script", "analyze_output"}
        /\ pc = "done" =>
              /\ calls = <<"find_firmware_file">>
              /\ on_status => statuses[Len(statuses)].is_error
              /\ on_completed =>
                    /\ Len(completed) = 1
                    /\ ~completed[1].success
                    /\ Len(completed[1].errors) = 1
                    /\ Contains(completed[1].errors[1], <<"_", LowerName(target), "_">>)
                    /\ Contains(completed[1].errors[1], <<folder>>)

\* an attempt on a folder that has files, none of them for the target, ended
C6_Witness ==
    /\ folder \in ExistingFolders
    /\ target # ""
    /\ listing # <<>>
    /\ NoFirmwareFor(<<"_", LowerName(target), "_">>)
    /\ pc = "done"
    /\ on_completed
    /\ Len(completed) = 1
    /\ ~completed[1].success

\* ------------------------------------------------------------------------
\* Properties of build_script (checked under SpecBuild)
\* ------------------------------------------------------------------------

\* str.split("\n"): line k runs from after newline k-1 to before newline k
Lines(t) ==
    LET nl == {i \in 1..Len(t) : t[i] = "\n"}
        n == Cardinality(nl) + 1
        NthNewline(k) == CHOOSE i \in nl : Cardinality({j \in nl : j < i}) = k - 1
    IN [k \in 1..n |->
          SubSeq(t, IF k = 1 THEN 1 ELSE NthNewline(k - 1) + 1,
                    IF k = n THEN Len(t) ELSE NthNewline(k) - 1)]

\* the script lines, as J-Link Commander reads them
LineConnect == <<"connect">>
LineUnlock == <<"unlock kinetis">>
LineReset == <<"r">>
LineErase == <<"erase">>
LineGo == <<"g">>
LineExit == <<"exit">>
LineSleep5 == <<"Sleep ", "5">>
LineComment == <<"// ", "Program IFR FOPT field (IO only)">>
LineW4_04_44 ==
    <<"w", "4", " 0x", "4", "0", "0", "2", "3", "0", "0", "4",
      ", 0x", "4", "4", "0", "0", "0", "0", "0", "0">>
LineW1_00_70 ==
    <<"w", "1", " 0x", "4", "0", "0", "2", "3", "0", "0", "0",
      ", 0x", "0", "0", "0", "0", "0", "0", "7", "0">>
LineW1_00_80 ==
    <<"w", "1", " 0x", "4", "0", "0", "2", "3", "0", "0", "0",
      ", 0x", "0", "0", "0", "0", "0", "0", "8", "0">>
LineW4_04_43 ==
    <<"w", "4", " 0x", "4", "0", "0", "2", "3", "0", "0", "4",
      ", 0x", "4", "3", "8", "4", "0", "0", "0", "0">>
LineW4_08_FF ==
    <<"w", "4", " 0x", "4", "0", "0", "2", "3", "0", "0", "8",
      ", 0x", "F", "F", "F", "F", "F", "3", "F", "F">>

IsLoadFileLine(l) == l # <<>> /\ l[1] = "loadfile \""
IsCommentLine(l) == l # <<>> /\ l[1] = "// "

\* the names that are the IO target, whatever their case
IONames == {"IO", "io", "Io"}

\* C7: for every target the script is SetDevice, SetInterface, SetSpeed,
\* Connect, UnlockDevice, Reset, Erase, the three register writes, Sleep(5),
\* LoadFile(firmware path), then nothing or the six lines of the IO block,
\* then Reset, Go, Exit; there is exactly one unlock line, after Connect and
\* before Erase, and exactly one load-file line.
C7_FixedCommandSequence ==
    pc = "built" =>
        LET L == Lines(script)
            n == Len(L)
        IN /\ n \in {15, 21}
           /\ Len(L[1]) = 1 /\ L[1][1] \in {DEVICE_LINES[k] : k \in DOMAIN DEVICE_LINES}
           /\ L[2] = <<"IF ", svc.interface>>
           /\ L[3] = <<"Speed ", ToStr(svc.speed_khz)>>
           /\ SubSeq(L, 4, 11) = << LineConnect, LineUnlock, LineReset, LineErase,
                                    LineW4_04_44, LineW1_00_70, LineW1_00_80,
                                    LineSleep5 >>
           /\ L[12] = <<"loadfile \"">> \o fw_path \o <<"\" 0x0">>
           /\ SubSeq(L, n - 2, n) = <<LineReset, LineGo, LineExit>>
           /\ Cardinality({k \in 1..n : L[k] = LineUnlock}) = 1
           /\ Cardinality({k \in 1..n : IsLoadFileLine(L[k])}) = 1

\* a script built for a target that is not IO, with its unlock line
C7_Witness ==
    /\ pc = "built"
    /\ target \in {"Delsys", "LOGO", "logo"}
    /\ Lines(script)[5] = LineUnlock
    /\ Len(Lines(script)) = 15

\* C8: for the IO target the script has the IFR-FOPT comment line followed by
\* the four register writes and Sleep(5), in that order, after the load-file
\* line and right before the final Reset.
C8_IOBlockAfterLoadFile ==
    (pc = "built" /\ target \in IONames) =>
        LET L == Lines(script)
            n == Len(L)
        IN \E k \in 1..n :
              /\ L[k] = LineComment
              /\ k + 8 = n
              /\ SubSeq(L, k + 1, k + 5) = << LineW4_04_43, LineW4_08_FF, LineW1_00_70,
                                              LineW1_00_80, LineSleep5 >>
              /\ SubSeq(L, k + 6, n) = <<LineReset, LineGo, LineExit>>
              /\ \E j \in 1..(k - 1) : IsLoadFileLine(L[j])
              /\ \A j \in k..n : ~IsLoadFileLine(L[j])

\* a script built for IO
C8_Witness ==
    /\ pc = "built"
    /\ target = "IO"
    /\ Lines(script)[13] = LineComment
    /\ Len(Lines(script)) = 21

\* C9: for every target other than IO, unknown ones included, the script has
\* no comment line and none of the IO-only register writes: its load-file line
\* is immediately followed by the final Reset, Go, Exit.
C9_NoIOBlockForOtherTargets ==
    (pc = "built" /\ target \notin IONames) =>
        LET L == Lines(script)
            n == Len(L)
        IN /\ \A k \in 1..n : ~IsCommentLine(L[k])
           /\ \A k \in 1..n : L[k] \notin {LineW4_04_43, LineW4_08_FF}
           /\ \E k \in 1..n :
                 /\ IsLoadFileLine(L[k])
                 /\ SubSeq(L, k + 1, n) = <<LineReset, LineGo, LineExit>>

\* a script built for an unknown target, which carries IO's device line
C9_Witness ==
    /\ pc = "built"
    /\ target \in {"FOO", "foo", "K32"}
    /\ Lines(script)[1] = <<"Device K32L3Axxxxxxxx_M4">>
    /\ IsLoadFileLine(Lines(script)[12])
    /\ Lines(script)[13] = LineReset

\* C10: the device line of the script is the table entry of the target for
\* IO, DELSYS and LOGO in any case, and IO's entry for every other target; it
\* is never empty.
C10_DeviceLineWithFallback ==
    pc = "built" =>
        LET L == Lines(script) IN
        /\ L[1] # <<>>
        /\ L[1] # <<"">>
        /\ L[1] = IF target \in {"DELSYS", "Delsys", "LOGO", "logo"}
                  THEN <<"Device K32L2B31xxxxA">>
                  ELSE <<"Device K32L3Axxxxxxxx_M4">>

\* a script built for an unknown target
C10_Witness ==
    /\ pc = "built"
    /\ target \notin IONames \cup {"DELSYS", "Delsys", "LOGO", "logo"}
    /\ Lines(script)[1] = <<"Device K32L3Axxxxxxxx_M4">>

\* ------------------------------------------------------------------------
\* The rules of analyze_output, one by one (checked under SpecAnalyze)
\* ------------------------------------------------------------------------

\* C11: analyze_output of an empty or absent (None) raw output is a failure
\* whose errors list is exactly ['No output from J-Link.'] and whose warnings
\* list is empty; no other rule adds to it.
C11_NoOutputRule ==
    (pc = "classified" /\ (out = None \/ out = <<>>)) =>
        /\ ~outcome.success
        /\ outcome.errors = << <<"No output from J-Link.">> >>
        /\ outcome.warnings = <<>>

\* the empty string has been classified
C11_Witness ==
    /\ pc = "classified"
    /\ out = <<>>
    /\ outcome.errors = << <<"No output from J-Link.">> >>

\* C12: a non-empty text with no fatal-error pattern and no 'loadfile'
\* marker is a failure whose errors list is exactly ["No 'loadfile' found in
\* output."], also when the text carries a success marker.
C12_LoadfileRule ==
    (/\ pc = "classified"
     /\ out # None /\ out # <<>>
     /\ ~FatalPatternIn(out)
     /\ ~LoadfileMarkerIn(out)) =>
        /\ ~outcome.success
        /\ outcome.errors = << <<"No 'loadfile' found in output.">> >>

\* a text with 'O.K.' and without 'loadfile' has been classified
C12_Witness ==
    /\ pc = "classified"
    /\ out # None
    /\ HasOK(out)
    /\ ~LoadfileMarkerIn(out)
    /\ ~FatalPatternIn(out)
    /\ outcome.errors = << <<"No 'loadfile' found in output.">> >>

\* C13: a text with no fatal-error pattern, with 'loadfile' and with no
\* success marker is a failure whose errors list is exactly ["No success
\* marker ('O.K.') found in output."]; and the five rules apply in strict
\* priority order, so that the first rule whose condition holds, and no
\* other, determines the outcome.
C13_RulesInPriorityOrder ==
    pc = "classified" =>
        IF out = None \/ out = <<>>
        THEN /\ ~outcome.success
             /\ outcome.errors = << <<"No output from J-Link.">> >>
        ELSE IF FatalPatternIn(out)
        THEN /\ ~outcome.success
             /\ outcome.errors # <<>>
             /\ \A k \in 1..Len(outcome.errors) :
                    \E i \in 1..Len(out) : \E j \in i..Len(out) :
                        outcome.errors[k] = SubSeq(out, i, j)
        ELSE IF ~LoadfileMarkerIn(out)
        THEN /\ ~outcome.success
             /\ outcome.errors = << <<"No 'loadfile' found in output.">> >>
        ELSE IF SuccessMarkerIn(out)
        THEN /\ outcome.success
             /\ outcome.errors = <<>>
        ELSE /\ ~outcome.success
             /\ outcome.errors =
                    << <<"No success marker ('O.K.') found in output.">> >>

\* a text with 'loadfile' and nothing else of interest has been classified
C13_Witness ==
    /\ pc = "classified"
    /\ out # None
    /\ LoadfileMarkerIn(out)
    /\ ~SuccessMarkerIn(out)
    /\ ~FatalPatternIn(out)
    /\ outcome.errors = << <<"No success marker ('O.K.') found in output.">> >>

\* ------------------------------------------------------------------------
\* run_script's temporary file (checked under Spec)
\* ------------------------------------------------------------------------

\* run_script has returned or raised in this attempt
RunScriptLeft == \E k \in 1..Len(calls) : calls[k] = "run_script"

C18_StatusOrder ==
    (on_status /\ fw_path # <<>>) =>
        LET progress ==
                << [msg |-> <<"Searching for firmware file...">>, is_error |-> FALSE],
                   [msg |-> <<"Building J-Link script...">>, is_error |-> FALSE],
                   [msg |-> <<"Flashing device. Please wait...">>, is_error |-> FALSE] >>
            final ==
                IF outcome.success
                THEN [msg |-> <<"Flashing completed successfully!">>, is_error |-> FALSE]
                ELSE [msg |-> <<"Flash appears to have failed.">>, is_error |-> TRUE]
        IN
        IF pc \in {"complete", "done"}
        THEN /\ statuses = Append(progress, final)
             /\ (completed # <<>> => (pc = "done" /\ completed = <<outcome>>))
        ELSE /\ Len(statuses) <= 3
             /\ statuses = SubSeq(progress, 1, Len(statuses))
             /\ completed = <<>>

\* an attempt has ended in success after its four statuses
C18_Witness ==
    /\ pc = "done"
    /\ on_status /\ on_completed
    /\ fw_path # <<>>
    /\ Len(statuses) = 4
    /\ completed # <<>>
    /\ completed[1].success

\* ------------------------------------------------------------------------
\* Observers and the course of an attempt (checked under SpecObs)
\* ------------------------------------------------------------------------

\* the worker thread has ended, by returning or by an exception
Ended == pc \in {"done", "crashed"}

\* the collaborator steps of an attempt on these inputs, whatever the
\* observers are
StepsWithoutObservers ==
    IF folder = "" \/ target = "" THEN <<>>
    ELSE IF NoFirmwareFor(SearchTag(target)) THEN <<"find_firmware_file">>
    ELSE IF raised # <<>> THEN <<"find_firmware_file", "build_script", "run_script">>
    ELSE <<"find_firmware_file", "build_script", "run_script", "analyze_output">>

\* the outcome of an attempt on these inputs and these collaborator results
\* (the text run_script returned or the exception it raised)
OutcomeWithoutObservers ==
    IF folder = "" \/ target = ""
    THEN FlashOutcome(FALSE, << <<"Missing selections.">> >>, <<>>, <<>>)
    ELSE IF NoFirmwareFor(SearchTag(target))
    THEN FlashOutcome(FALSE,
             << <<"No file containing '">> \o SearchTag(target)
                    \o <<"' found in ", folder>> >>, <<>>, <<>>)
    ELSE IF raised # <<>> THEN FlashOutcome(FALSE, raised, <<>>, <<>>)
    ELSE analyze_output(out)

\* C17: status and log notifications are advisory. For the same folder,
\* target and collaborator results, the steps performed and the outcome
\* delivered at the end of an attempt are the same whatever the status and
\* log observers are: not registered, registered, or failing when called.
C17_ObserversAreAdvisory ==
    Ended =>
        /\ calls = StepsWithoutObservers
        /\ on_completed => completed = <<OutcomeWithoutObservers>>

\* ------------------------------------------------------------------------
\* The Flash button and the worker threads (checked under FairSpecView)
\* ------------------------------------------------------------------------

StartedAfterSave == saved # NoSave /\ start_id = svc.id

\* C19: after save_config(interface = i, speed_khz = s, ...) has returned,
\* the service has been rebuilt from the saved configuration: an attempt
\* started afterwards builds its script with interface i and speed s, looks
\* for the file under the saved firmware root and runs the saved tool, never
\* with the values in force before the save. (The saved configuration has
\* 'SWD', 4000, 'firmware' and the default tool in the place of empty
\* arguments, and no white space around the strings.)
C19_SavedConfigurationTakesEffect ==
    StartedAfterSave =>
        LET i == IF saved.interface = "" THEN "SWD" ELSE StripName(saved.interface)
            s == IF saved.speed_khz = 0 THEN 4000 ELSE saved.speed_khz
            root == IF saved.firmware_root = "" THEN "firmware"
                    ELSE StripName(saved.firmware_root)
            tool == IF saved.jlink_path = "" THEN "JLinkExe"
                    ELSE StripName(saved.jlink_path)
        IN /\ script # <<>> =>
                 /\ Lines(script)[2] = <<"IF ", i>>
                 /\ Lines(script)[3] = <<"Speed ", ToStr(s)>>
           /\ fw_path # <<>> => fw_path[1] = root
           /\ \A k \in 1..Len(calls) :
                 calls[k] = "run_script" => used[k].jlink_path = tool

\* an attempt started after save_config(interface = 'JTAG', speed_khz =
\* 1000) has run the tool with a script for JTAG at 1000 kHz
C19_Witness ==
    /\ StartedAfterSave
    /\ saved.interface = "JTAG"
    /\ pc = "done"
    /\ RunScriptLeft
    /\ Lines(script)[2] = <<"IF ", "JTAG">>
    /\ Lines(script)[3] = <<"Speed ", "1000">>

\* C20: all steps of one flash attempt (find, build, run, classify) are
\* performed by the same FlasherService instance, and so under one
\* configuration, also when save_config runs while the worker is in flight.
C20_OneServicePerAttempt ==
    \A j \in 1..Len(used) : \A k \in 1..Len(used) : used[j] = used[k]

\* ------------------------------------------------------------------------
\* The shape of every FlashOutcome (checked under SpecOutcomes)
\* ------------------------------------------------------------------------

\* a failure has at least one error, a success has none, and there are no
\* warnings
WellFormedOutcome(o) ==
    /\ ~o.success => o.errors # <<>>
    /\ o.success => o.errors = <<>>
    /\ o.warnings = <<>>

\* C21: every FlashOutcome that analyze_output produces or that the worker
\* assigns or delivers to on_completed has a non-empty errors list when
\* success is false, an empty errors list when success is true, and an empty
\* warnings list; no failure is reported without an error string.
C21_OutcomesWellFormed ==
    /\ outcome # NoOutcome => WellFormedOutcome(outcome)
    /\ \A k \in 1..Len(completed) : WellFormedOutcome(completed[k])

\* run_script raised an exception whose str(e) is the empty string, and the
\* failure delivered still has one error string
C21_Witness ==
    /\ pc = "done"
    /\ raised = << <<>> >>
    /\ Len(completed) = 1
    /\ ~completed[1].success
    /\ completed[1].errors = << <<>> >>

====
